---- MODULE Spec2Model ----
(***************************************************************************)
(* Docking job manager and progress tracker of backend/main.py, with the   *)
(* score-table parser of backend/pipeline.py it delegates to.              *)
(*                                                                         *)
(* A text line is the sequence of its whitespace-separated tokens          *)
(* (str.split()); a token is a string of the vocabulary below.  Substring  *)
(* tests and regular expressions of the code are evaluated on the tokens.  *)
(***************************************************************************)
EXTENDS Integers, Sequences, FiniteSets, TLC

\* ------------------------------------------------------------------ bounds
MaxJobs == 2
MaxLines == 3
MaxJobLines == 1
MaxFascLines == 2
MaxJobFascLines == 1
MaxDone == 9
MaxTableLines == 4
MaxChainLines == 3
MaxCalls == 2
MaxResidueLines == 4
MaxTotal == 6
MaxCoord == 4
MaxAtoms == 2
MaxGap == 3

\* ----------------------------------------------------------- text helpers
\* float(tok): the tokens float() accepts, with their values
FloatVal == [t \in {"0", "1", "2", "3", "-3", "-5"} |->
               CASE t = "0" -> 0 [] t = "1" -> 1 [] t = "2" -> 2
                 [] t = "3" -> 3 [] t = "-3" -> 0 - 3 [] t = "-5" -> 0 - 5]

IsFloat(t) == t \in DOMAIN FloatVal

\* the digits a token starts with (\d+ anchored right after whitespace)
LeadingDigits == [t \in {"0", "1", "2", "3"} |-> FloatVal[t]]

\* the digits a token ends with (\d+ anchored right before whitespace or $)
TrailingDigits == [t \in {"0", "1", "2", "3", "m_0001", "m_0002"} |->
                     CASE t = "m_0001" -> 1 [] t = "m_0002" -> 2
                       [] OTHER -> FloatVal[t]]

\* s in line, for the three substrings the code looks for
Contains(line, s) ==
    \E i \in 1..Len(line) :
        \/ line[i] = s
        \/ s = "JobDistributor" /\ line[i] = "protocols.jd2.JobDistributor:"

\* line.startswith("SCORE:")
StartsWithSCORE(line) == Len(line) >= 1 /\ line[1] = "SCORE:"

\* the least of the indices at which a pattern matches, 0 when none does
FirstIndex(matches) ==
    IF matches = {} THEN 0
    ELSE CHOOSE i \in matches : \A k \in matches : i <= k

\* re.search(r"starting\s+(\d+)", line): the number matched, -1 when none
SearchStarting(line) ==
    LET P(i) == i < Len(line) /\ line[i] = "starting"
                /\ line[i + 1] \in DOMAIN LeadingDigits
        i == FirstIndex({k \in 1..Len(line) : P(k)})
    IN IF i = 0 THEN 0 - 1 ELSE LeadingDigits[line[i + 1]]

\* re.search(r"(\d+)\s+of", line)
SearchOf(line) ==
    LET P(i) == i < Len(line) /\ line[i] \in DOMAIN TrailingDigits
                /\ line[i + 1] = "of"
        i == FirstIndex({k \in 1..Len(line) : P(k)})
    IN IF i = 0 THEN 0 - 1 ELSE TrailingDigits[line[i]]

\* re.search(r"job\s+(\d+)", line)
SearchJob(line) ==
    LET P(i) == i < Len(line) /\ line[i] = "job"
                /\ line[i + 1] \in DOMAIN LeadingDigits
        i == FirstIndex({k \in 1..Len(line) : P(k)})
    IN IF i = 0 THEN 0 - 1 ELSE LeadingDigits[line[i + 1]]

\* the three patterns tried in order; -1 when no pattern matches
JobDistributorMatch(line) ==
    IF SearchStarting(line) >= 0 THEN SearchStarting(line)
    ELSE IF SearchOf(line) >= 0 THEN SearchOf(line)
    ELSE SearchJob(line)

\* -------------------------------------------------- score table (pipeline)
\* A file is [exists, readable, lines]; an optional number is <<>> (None)
\* or <<v>>.
NoFile == [exists |-> FALSE, readable |-> TRUE, lines |-> <<>>]

File(ls) == [exists |-> TRUE, readable |-> TRUE, lines |-> ls]

\* a file whose read_text() raises
UnreadableFile(ls) == [exists |-> TRUE, readable |-> FALSE, lines |-> ls]

\* int() of the digits after the last underscore, for the names that end so
SuffixIndex ==
    [d \in {"m_0001", "m_0002", "m_1", "complex_input_full_0001",
            "complex_input_full_0002", "complex_input_full_b_1"} |->
        CASE d \in {"m_0001", "m_1", "complex_input_full_0001",
                    "complex_input_full_b_1"} -> 1
          [] OTHER -> 2]

\* extract_index: the digits of a trailing _<digits>, None without one
extract_index(desc) ==
    IF desc \in DOMAIN SuffixIndex THEN <<SuffixIndex[desc]>> ELSE <<>>

\* pdb_map: the file of an index is the last of the sorted glob matches whose
\* stem has that index; candidates are the stems, sorted
PdbMap(candidates, idx) ==
    LET hits == {i \in 1..Len(candidates) : extract_index(candidates[i]) = <<idx>>}
    IN IF hits = {} THEN <<>>
       ELSE <<candidates[CHOOSE i \in hits : \A k \in hits : k <= i]>>

\* PdbPath that takes the first file matched, whatever its index
PdbPathIgnoringIndex(candidates, index) ==
    IF candidates # <<>> THEN <<candidates[1]>> ELSE <<>>

\* model["pdb_path"]
PdbPath(candidates, index) ==
    IF index # <<>> THEN PdbMap(candidates, index[1]) ELSE <<>>

\* header_idx: the first line with the SCORE: prefix that holds total_score
HeaderIndex(lines) ==
    LET P(i) == StartsWithSCORE(lines[i]) /\ Contains(lines[i], "total_score")
    IN FirstIndex({i \in 1..Len(lines) : P(i)})

\* column_names = header_parts[1:desc_idx] if desc_idx > 0 else header_parts[1:]
ColumnNames(header_parts) ==
    LET P(i) == header_parts[i] = "description"
        d == FirstIndex({i \in 1..Len(header_parts) : P(i)})
    IN IF d > 1 THEN SubSeq(header_parts, 2, d - 1)
       ELSE SubSeq(header_parts, 2, Len(header_parts))

\* IsDataRow that asks for two tokens only
IsDataRowTwoTokens(line) ==
    /\ StartsWithSCORE(line)
    /\ ~Contains(line, "total_score")
    /\ Len(line) >= 2

\* a row of the table after the header that the parser keeps
IsDataRow(line) ==
    /\ StartsWithSCORE(line)
    /\ ~Contains(line, "total_score")
    /\ Len(line) >= 3

\* model[col_name] for the i-th column of a kept row
ColumnValue(parts, i) ==
    IF i <= Len(parts) - 2 /\ IsFloat(parts[i + 1])
    THEN <<FloatVal[parts[i + 1]]>>
    ELSE <<>>

\* model.get("total_score", 0.0): a later column of the same name wins
TotalScore(column_names, parts) ==
    LET hits == {i \in 1..Len(column_names) : column_names[i] = "total_score"}
    IN IF hits = {} THEN <<0>>
       ELSE ColumnValue(parts, CHOOSE i \in hits : \A k \in hits : k <= i)

ParseRow(column_names, parts, candidates) ==
    [score |-> TotalScore(column_names, parts),
     desc  |-> parts[Len(parts)],
     index |-> extract_index(parts[Len(parts)]),
     pdb_path |-> PdbPath(candidates, extract_index(parts[Len(parts)])),
     vals  |-> [i \in 1..Len(column_names) |-> ColumnValue(parts, i)]]

RECURSIVE ParseRows(_, _, _, _)
ParseRows(column_names, lines, from, candidates) ==
    IF from > Len(lines) THEN <<>>
    ELSE IF IsDataRow(lines[from])
         THEN <<ParseRow(column_names, lines[from], candidates)>>
              \o ParseRows(column_names, lines, from + 1, candidates)
         ELSE ParseRows(column_names, lines, from + 1, candidates)

\* parse_fasc_all_models that returns an empty list for a table without rows
parse_fasc_all_models_empty_ok(file, candidates) ==
    IF ~file.exists
    THEN [ok |-> FALSE, models |-> <<>>, err |-> "FileNotFoundError"]
    ELSE IF ~file.readable
    THEN [ok |-> FALSE, models |-> <<>>, err |-> "OSError"]
    ELSE LET h == HeaderIndex(file.lines) IN
         IF h = 0
         THEN [ok |-> FALSE, models |-> <<>>, err |-> "no SCORE header"]
         ELSE [ok |-> TRUE,
               models |-> ParseRows(ColumnNames(file.lines[h]), file.lines,
                                    h + 1, candidates),
               err |-> ""]

\* parse_fasc_all_models: [ok, models, err]
parse_fasc_all_models(file, candidates) ==
    IF ~file.exists
    THEN [ok |-> FALSE, models |-> <<>>, err |-> "FileNotFoundError"]
    ELSE IF ~file.readable
    THEN [ok |-> FALSE, models |-> <<>>, err |-> "OSError"]
    ELSE LET h == HeaderIndex(file.lines) IN
         IF h = 0
         THEN [ok |-> FALSE, models |-> <<>>, err |-> "no SCORE header"]
         ELSE LET ms == ParseRows(ColumnNames(file.lines[h]), file.lines, h + 1,
                                  candidates)
              IN IF ms = <<>>
                 THEN [ok |-> FALSE, models |-> <<>>, err |-> "no SCORE lines"]
                 ELSE [ok |-> TRUE, models |-> ms, err |-> ""]

\* min(all_models, key=score): the first record of least score; comparing a
\* None score raises TypeError, an empty list ValueError
parse_fasc_and_find_best(file, candidates) ==
    LET all == parse_fasc_all_models(file, candidates) IN
    IF ~all.ok THEN [ok |-> FALSE, best |-> <<>>, err |-> all.err]
    ELSE LET ms == all.models IN
         IF ms = <<>>
         THEN [ok |-> FALSE, best |-> <<>>, err |-> "ValueError"]
         ELSE IF Len(ms) >= 2 /\ \E i \in 1..Len(ms) : ms[i].score = <<>>
         THEN [ok |-> FALSE, best |-> <<>>, err |-> "TypeError"]
         ELSE LET P(i) == \A k \in 1..Len(ms) :
                              ms[i].score = <<>> \/ ms[i].score[1] <= ms[k].score[1]
              IN [ok |-> TRUE,
                  best |-> <<ms[FirstIndex({i \in 1..Len(ms) : P(i)})]>>,
                  err |-> ""]

\* ------------------------------------------------------ events (main.py)
Event(type, current, total, percent, score, desc, message) ==
    [type |-> type, current |-> current, total |-> total, percent |-> percent,
     score |-> score, desc |-> desc, message |-> message]

StartEvent(total) ==
    Event("start", 0, total, 0, <<>>, "", "Starting Rosetta docking...")

ProgressEvent(current, total, percent) ==
    Event("progress", current, total, percent, <<>>, "", "")

ScoreEvent(score, desc) == Event("score", 0, 0, 0, <<score>>, desc, "")

CompleteEvent(best) == Event("complete", 0, 0, 0, best.score, best.desc, "")

ErrorEvent(message) == Event("error", 0, 0, 0, <<>>, "", message)

Min(a, b) == IF a <= b THEN a ELSE b

Max(a, b) == IF a >= b THEN a ELSE b

\* ------------------------------------------- one line of the stream loop
\* The locals of generate_progress while a line is processed:
\* [structures_done, scores, last_progress_sent, evs, raised]; evs are the
\* events yielded so far, raised the message of an exception or "".
FascCheckEvery == 3

\* check_fasc_file: the rows counted in the score table being written
check_fasc_file(file) ==
    IF ~file.exists THEN 0
    ELSE IF ~file.readable THEN 0
    ELSE Cardinality({i \in 1..Len(file.lines) :
            /\ StartsWithSCORE(file.lines[i])
            /\ ~Contains(file.lines[i], "total_score")
            /\ ~Contains(file.lines[i], "description")
            /\ Len(file.lines[i]) >= 2})

\* should_send_progress: whether to send, decided against last_progress_sent
should_send_progress(current_count, last) ==
    current_count # last /\ current_count >= 0

\* min(100, int((structures_done / nstruct) * 100)), nstruct # 0; for the
\* counts up to MaxDone + 1 and the replica counts up to MaxTotal + 1 the
\* double-precision quotient truncates to the exact quotient's floor
Percent(done, total) == Min(100, (done * 100) \div total)

\* if should_send_progress(structures_done): percent = ...; yield progress
SendProgress(f, total) ==
    IF ~should_send_progress(f.structures_done, f.last_progress_sent) THEN f
    ELSE IF total = 0
         THEN [f EXCEPT !.last_progress_sent = f.structures_done,
                        !.raised = "division by zero"]
         ELSE [f EXCEPT !.last_progress_sent = f.structures_done,
                        !.evs = Append(@, ProgressEvent(f.structures_done, total,
                                          Percent(f.structures_done, total)))]

\* every third line: recount the score table
FascStage(f, line_count, file, total) ==
    IF line_count % FascCheckEvery = 0 /\ check_fasc_file(file) > f.structures_done
    THEN SendProgress([f EXCEPT !.structures_done = check_fasc_file(file)], total)
    ELSE f

\* JobDistributor lines: the number matched
JobDistributorStage(f, line, total) ==
    IF f.raised = "" /\ Contains(line, "JobDistributor")
       /\ JobDistributorMatch(line) >= 0
    THEN SendProgress([f EXCEPT !.structures_done =
                           Max(@, JobDistributorMatch(line))], total)
    ELSE f

\* a SCORE: line that is no header, has two tokens and a numeric second one
IsScoreData(line) ==
    /\ StartsWithSCORE(line)
    /\ ~Contains(line, "total_score")
    /\ ~Contains(line, "description")
    /\ Len(line) >= 2
    /\ IsFloat(line[2])

\* ScoreStage with the score event yielded inside the progress branch
ScoreStageOnlyWithProgress(f, line, total) ==
    IF f.raised = "" /\ IsScoreData(line)
    THEN LET score == FloatVal[line[2]]
             desc  == IF Len(line) > 2 THEN line[Len(line)] ELSE "unknown"
             g == [f EXCEPT !.scores = Append(@, [score |-> score, desc |-> desc])]
             h == SendProgress([g EXCEPT !.structures_done = Len(g.scores)], total)
         IN IF h.raised = "" /\ Len(h.evs) > Len(f.evs)
            THEN [h EXCEPT !.evs = Append(@, ScoreEvent(score, desc))]
            ELSE h
    ELSE f

\* SCORE: lines: record the score, then the progress and the score event
ScoreStage(f, line, total) ==
    IF f.raised = "" /\ IsScoreData(line)
    THEN LET score == FloatVal[line[2]]
             desc  == IF Len(line) > 2 THEN line[Len(line)] ELSE "unknown"
             g == [f EXCEPT !.scores = Append(@, [score |-> score, desc |-> desc])]
             h == SendProgress([g EXCEPT !.structures_done = Len(g.scores)], total)
         IN IF h.raised = "" THEN [h EXCEPT !.evs = Append(@, ScoreEvent(score, desc))]
            ELSE h
    ELSE f

\* the body of the for loop after the line is logged
ProcessLine(f, line, line_count, file, total) ==
    ScoreStage(JobDistributorStage(FascStage(f, line_count, file, total),
                                   line, total),
               line, total)

\* ExceptHandler that swallows the exception without an event
ExceptHandlerSilent(evs, message) == evs

\* except Exception as e: yield error
ExceptHandler(evs, message) == Append(evs, ErrorEvent(message))

\* the structure files the glob matches; the events and replies modelled
\* carry score and descriptor, which do not depend on the files matched
NoCandidates == <<>>

\* after process.wait(): complete, or error when the table is missing or bad
FinalEvent(file) ==
    IF ~file.exists
    THEN ErrorEvent("Docking failed - no results file generated")
    ELSE IF /\ parse_fasc_and_find_best(file, NoCandidates).ok
            /\ parse_fasc_all_models(file, NoCandidates).ok
         THEN CompleteEvent(parse_fasc_and_find_best(file, NoCandidates).best[1])
         ELSE ErrorEvent("Failed to parse results")

\* ------------------------------------------- the files set up for a job
\* no docking_full.xml and no docking.options.txt in the project directory
NoWorkspace == [xml |-> FALSE, options |-> <<>>]

\* project_dir / "complex_input.pdb"
ComplexPath(p) == p \o "/complex_input.pdb"

\* project_dir / "docking.fasc"
FascPath(p) == p \o "/docking.fasc"

\* the lines of the options template at DOCKING_OPTIONS_SRC
OptionsTemplate ==
    << <<"-s", "template.pdb">>,
       <<"-out:file:scorefile", "template.fasc">>,
       <<"-nstruct", "10">> >>

\* line.strip().startswith("-s ")
IsStructureInput(line) == Len(line) >= 2 /\ line[1] = "-s"

\* line.strip().startswith("-out:file:scorefile")
IsScoreOutput(line) == Len(line) >= 1 /\ line[1] = "-out:file:scorefile"

\* generate_progress: the options file written for a stream
RewriteOptionsStream(template, p, n) ==
    [i \in 1..Len(template) |->
        IF IsStructureInput(template[i]) THEN <<"-s", ComplexPath(p)>>
        ELSE IF IsScoreOutput(template[i])
             THEN <<"-out:file:scorefile", FascPath(p)>>
             ELSE template[i]]
    \o << <<"-nstruct", ToString(n)>> >>

\* run_docking: the options file written for a /dock call
RewriteOptionsRun(template, p) ==
    [i \in 1..Len(template) |->
        IF IsStructureInput(template[i]) THEN <<"-s", ComplexPath(p)>>
        ELSE template[i]]

\* ------------------------------------------------------------ input sets
Projects == {"p1", "p2"}

JobIds == 1..MaxJobs

NstructSet == {0, 2}

ReturnCodes == {0, 1}

\* the exit code when several streams run: the code never reads it
JobReturnCodes == {0}

\* lines the docking engine prints
LineSet ==
    { <<"protocols.jd2.JobDistributor:", "starting", "2">>,
      <<"JobDistributor", "job", "0">>,
      <<"JobDistributor", "1", "of", "2">>,
      <<"SCORE:", "-3", "m_0001">>,
      <<"SCORE:", "bad", "m_0002">>,
      <<"SCORE:", "-5">> }

\* the lines printed when several streams run
JobLineSet == { <<"SCORE:", "-3", "m_0001">> }

\* lines the docking engine writes to the score table
FascLineSet ==
    { <<"SCORE:", "total_score", "description">>,
      <<"SCORE:", "-3", "m_0001">> }

\* the line written to the score table when several streams run
JobFascLineSet == { <<"SCORE:", "total_score", "description">> }

\* The inputs of a run: one stream followed line by line, or several streams
\* over the projects.
StreamWorkload ==
    [projects |-> {"p1"}, jobs |-> 1, lines |-> MaxLines, line_set |-> LineSet,
     fasc_lines |-> MaxFascLines, fasc_set |-> FascLineSet,
     codes |-> ReturnCodes]

JobsWorkload ==
    [projects |-> Projects, jobs |-> MaxJobs, lines |-> MaxJobLines,
     line_set |-> JobLineSet, fasc_lines |-> MaxJobFascLines,
     fasc_set |-> JobFascLineSet, codes |-> JobReturnCodes]

\* one stream and /dock calls over the projects
DockWorkload ==
    [projects |-> Projects, jobs |-> 1, lines |-> MaxJobLines,
     line_set |-> JobLineSet, fasc_lines |-> MaxJobFascLines,
     fasc_set |-> FascLineSet, codes |-> ReturnCodes]

\* the score table a /dock run leaves in the project directory
DockTable == File(<< <<"SCORE:", "total_score", "description">>,
                     <<"SCORE:", "-3", "m_0001">> >>)

\* a score table left by an earlier run
StaleFasc == File(<< <<"SCORE:", "total_score", "description">>,
                     <<"SCORE:", "-5", "m_0002">> >>)

\* ----------------------------------------------------------------- state
VARIABLES
    complex_pdb,          \* project -> complex_input.pdb exists
    fasc,                 \* project -> docking.fasc
    active_docking_jobs,  \* project -> job whose process is registered, 0: none
    pc,                   \* job -> position of its generate_progress
    project,              \* job -> project
    nstruct,              \* job -> replica count
    process,              \* job -> [state, stdout_open, returncode, terminated]
    structures_done,      \* job -> local structures_done
    scores,               \* job -> local scores
    last_progress_sent,   \* job -> local last_progress_sent
    line_count,           \* job -> local line_count
    log_file,             \* job -> lines written through the job's log handle
    log_path,             \* project -> content of docking_full.log
    recounted,            \* job -> greatest count check_fasc_file has returned
    events,               \* job -> events yielded
    response,             \* reply of the API call just made, <<>> otherwise
    cancelled,            \* jobs whose process a cancel call has signalled
    exception,            \* job -> [raised, before]: exception in the loop
    unserialized,         \* projects submitted to while an earlier stream ran
    overlapped,           \* same, not counting streams that were cancelled
    workload,             \* the inputs the run draws from
    workspace,            \* project -> [xml, options]: the files set up for a job
    input,                \* the arguments of a call of a single function
    output                \* <<>> before the call, <<value>> after it

vars == <<complex_pdb, fasc, active_docking_jobs, pc, project, nstruct, process,
          structures_done, scores, last_progress_sent, line_count, log_file,
          events, response, cancelled, exception, unserialized, workload,
          workspace, log_path, recounted, overlapped, input, output>>

\* the variables of the calls of single functions
fnVars == <<input, output>>


jobVars == <<pc, project, nstruct, process, structures_done, scores,
             last_progress_sent, line_count, log_file, events, exception>>

\* the variables of the docking service
dockVars == <<complex_pdb, fasc, active_docking_jobs, jobVars, response,
              cancelled, unserialized, workload, workspace, log_path,
              recounted, overlapped>>

NoProcess == [state |-> "none", stdout_open |-> FALSE, returncode |-> 0,
              terminated |-> FALSE]

NoException == [raised |-> "", before |-> <<>>]

InitState ==
    /\ complex_pdb = [p \in Projects |-> FALSE]
    /\ active_docking_jobs = [p \in Projects |-> 0]
    /\ pc = [j \in JobIds |-> "none"]
    /\ project = [j \in JobIds |-> "p1"]
    /\ nstruct = [j \in JobIds |-> 0]
    /\ process = [j \in JobIds |-> NoProcess]
    /\ structures_done = [j \in JobIds |-> 0]
    /\ scores = [j \in JobIds |-> <<>>]
    /\ last_progress_sent = [j \in JobIds |-> 0 - 1]
    /\ line_count = [j \in JobIds |-> 0]
    /\ log_file = [j \in JobIds |-> <<>>]
    /\ events = [j \in JobIds |-> <<>>]
    /\ response = <<>>
    /\ cancelled = {}
    /\ exception = [j \in JobIds |-> NoException]
    /\ unserialized = {}
    /\ workspace = [p \in Projects |-> NoWorkspace]
    /\ log_path = [p \in Projects |-> <<>>]
    /\ recounted = [j \in JobIds |-> 0]
    /\ overlapped = {}

\* one stream; the project may hold the score table of an earlier run
Init ==
    /\ InitState
    /\ input = <<>>
    /\ output = <<>>
    /\ workload = StreamWorkload
    /\ fasc \in {[p \in Projects |-> NoFile],
                 [p \in Projects |-> IF p = "p1" THEN StaleFasc ELSE NoFile]}

\* several streams over fresh projects
InitJobs ==
    /\ InitState
    /\ input = <<>>
    /\ output = <<>>
    /\ workload = JobsWorkload
    /\ fasc = [p \in Projects |-> NoFile]

\* one stream and /dock calls over fresh projects
InitDock ==
    /\ InitState
    /\ input = <<>>
    /\ output = <<>>
    /\ workload = DockWorkload
    /\ fasc = [p \in Projects |-> NoFile]

\* ------------------------------------------------------------- API calls
\* the reply of a call
Reply(op, p, status) == <<op, p, status>>

\* api_merge: combine_in_python writes complex_input.pdb
Merge(p) ==
    /\ ~complex_pdb[p]
    /\ complex_pdb' = [complex_pdb EXCEPT ![p] = TRUE]
    /\ response' = Reply("merge", p, "ok")
    /\ UNCHANGED <<fasc, active_docking_jobs, jobVars, cancelled, unserialized, workload,
                   workspace, log_path, recounted,
                   overlapped, fnVars>>

\* a stream of the project that has not ended, or ended in the exception
\* handler, which does not wait for its process
StreamOpen(j, p) ==
    /\ project[j] = p
    /\ \/ pc[j] \in {"setup", "started", "spawn", "loop", "wait"}
       \/ exception[j].raised # ""

\* a stream of the project that has not ended and was not cancelled
StreamUnfinished(j, p) ==
    /\ project[j] = p
    /\ pc[j] \in {"setup", "started", "spawn", "loop", "wait"}
    /\ j \notin cancelled

\* ComplexExists that never looks at the file
ComplexAssumed(p) == TRUE

\* complex_pdb.exists()
ComplexExists(p) == complex_pdb[p]

\* api_dock_stream without the merged complex: HTTP 400
SubmitRejected(p) ==
    /\ ~ComplexExists(p)
    /\ response' = Reply("dock-stream", p, "400")
    /\ UNCHANGED <<complex_pdb, fasc, active_docking_jobs, jobVars, cancelled,
                   unserialized, workload,
                   workspace, log_path, recounted,
                   overlapped, fnVars>>

\* api_dock_stream: returns the streaming response over generate_progress()
Submit(p, n) ==
    /\ ComplexExists(p)
    /\ \E j \in JobIds :
        /\ j <= workload.jobs
        /\ pc[j] = "none"
        /\ \A k \in 1..(j - 1) : pc[k] # "none"
        /\ pc' = [pc EXCEPT ![j] = "setup"]
        /\ project' = [project EXCEPT ![j] = p]
        /\ nstruct' = [nstruct EXCEPT ![j] = n]
        /\ unserialized' = IF \E k \in JobIds : StreamOpen(k, p)
                           THEN unserialized \cup {p} ELSE unserialized
        /\ overlapped' = IF \E k \in JobIds : StreamUnfinished(k, p)
                         THEN overlapped \cup {p} ELSE overlapped
    /\ response' = Reply("dock-stream", p, "200")
    /\ UNCHANGED <<complex_pdb, fasc, active_docking_jobs, process,
                   structures_done, scores, last_progress_sent, line_count,
                   log_file, events, cancelled, exception, workload,
                   workspace, log_path, recounted, fnVars>>

\* api_dock without the merged complex: FileNotFoundError
DockRejected(p) ==
    /\ ~ComplexExists(p)
    /\ response' = Reply("dock", p, "FileNotFoundError")
    /\ UNCHANGED <<complex_pdb, fasc, active_docking_jobs, jobVars, cancelled,
                   unserialized, workload, workspace, log_path, recounted,
                   overlapped, fnVars>>

\* run_docking opens the log for writing and the engine prints into it: the
\* score line of the structure whose row it adds to the table
RunLog(out) ==
    IF out = DockTable THEN << <<"SCORE:", "-3", "m_0001">> >> ELSE <<>>

\* api_dock: run_docking sets up the files and runs the engine to its end,
\* which exits with code and leaves the table out; then the best record
Dock(p, code, out) ==
    /\ ComplexExists(p)
    /\ workspace' = [workspace EXCEPT ![p] =
                        [xml |-> TRUE,
                         options |-> RewriteOptionsRun(OptionsTemplate, p)]]
    /\ fasc' = [fasc EXCEPT ![p] = out]
    /\ log_path' = [log_path EXCEPT ![p] = RunLog(out)]
    /\ response' = Reply("dock", p,
                         IF code # 0 THEN "RuntimeError"
                         ELSE IF parse_fasc_and_find_best(out, NoCandidates).ok
                              THEN "200"
                         ELSE parse_fasc_and_find_best(out, NoCandidates).err)
    /\ UNCHANGED <<complex_pdb, active_docking_jobs, jobVars, cancelled,
                   unserialized, workload, recounted, overlapped, fnVars>>

\* if project in active_docking_jobs: del active_docking_jobs[project]
Unregister(registry, p) == [registry EXCEPT ![p] = 0]

\* api_dock_cancel without the del of the registry entry
api_dock_cancel_keeps_entry(registry, p) ==
    IF registry[p] # 0
    THEN [status |-> "cancelled", registry |-> registry, target |-> registry[p]]
    ELSE [status |-> "not_found", registry |-> registry, target |-> 0]

\* api_dock_cancel on the registry: its status, the registry it leaves and
\* the job whose process it signals (0: none)
api_dock_cancel(registry, p) ==
    IF registry[p] # 0
    THEN [status |-> "cancelled", registry |-> Unregister(registry, p),
          target |-> registry[p]]
    ELSE [status |-> "not_found", registry |-> registry, target |-> 0]

\* Terminate that sends no signal
TerminateNothing(proc) == proc

\* Popen.terminate(): signals a process that has not exited
Terminate(proc) ==
    IF proc.state = "running" THEN [proc EXCEPT !.terminated = TRUE] ELSE proc

Cancel(p) ==
    LET r == api_dock_cancel(active_docking_jobs, p) IN
    /\ active_docking_jobs' = r.registry
    /\ process' = [j \in JobIds |->
                     IF j = r.target THEN Terminate(process[j]) ELSE process[j]]
    /\ cancelled' = IF r.target # 0 THEN cancelled \cup {r.target} ELSE cancelled
    /\ response' = Reply("cancel", p, r.status)
    /\ UNCHANGED <<complex_pdb, fasc, pc, project, nstruct, structures_done,
                   scores, last_progress_sent, line_count, log_file, events,
                   exception, unserialized, workload,
                   workspace, log_path, recounted,
                   overlapped, fnVars>>

\* ------------------------------------------------------ generate_progress
\* set up the files, yield the start event
Start(j) ==
    /\ pc[j] = "setup"
    /\ pc' = [pc EXCEPT ![j] = "started"]
    /\ workspace' = [workspace EXCEPT ![project[j]] =
                        [xml |-> TRUE,
                         options |-> RewriteOptionsStream(OptionsTemplate,
                                         project[j], nstruct[j])]]
    /\ events' = [events EXCEPT ![j] = <<StartEvent(nstruct[j])>>]
    /\ response' = <<>>
    /\ UNCHANGED <<complex_pdb, fasc, active_docking_jobs, project, nstruct,
                   process, structures_done, scores, last_progress_sent,
                   line_count, log_file, cancelled, exception, unserialized, workload,
                   log_path, recounted,
                   overlapped, fnVars>>

\* yield the initial progress event
InitialProgress(j) ==
    /\ pc[j] = "started"
    /\ pc' = [pc EXCEPT ![j] = "spawn"]
    /\ events' = [events EXCEPT ![j] = Append(@, ProgressEvent(0, nstruct[j], 0))]
    /\ response' = <<>>
    /\ UNCHANGED <<complex_pdb, fasc, active_docking_jobs, project, nstruct,
                   process, structures_done, scores, last_progress_sent,
                   line_count, log_file, cancelled, exception, unserialized, workload,
                   workspace, log_path, recounted,
                   overlapped, fnVars>>

\* subprocess.Popen succeeds: register the process, initialise the locals
Spawn(j) ==
    /\ pc[j] = "spawn"
    /\ pc' = [pc EXCEPT ![j] = "loop"]
    /\ process' = [process EXCEPT ![j] =
                     [state |-> "running", stdout_open |-> TRUE,
                      returncode |-> 0, terminated |-> FALSE]]
    /\ active_docking_jobs' = [active_docking_jobs EXCEPT ![project[j]] = j]
    /\ structures_done' = [structures_done EXCEPT ![j] = 0]
    /\ scores' = [scores EXCEPT ![j] = <<>>]
    /\ last_progress_sent' = [last_progress_sent EXCEPT ![j] = 0 - 1]
    /\ line_count' = [line_count EXCEPT ![j] = 0]
    /\ log_file' = [log_file EXCEPT ![j] = <<>>]
    /\ log_path' = [log_path EXCEPT ![project[j]] = <<>>]
    /\ response' = <<>>
    /\ UNCHANGED <<complex_pdb, fasc, project, nstruct, events, cancelled,
                   exception, unserialized, workload,
                   workspace, recounted, overlapped, fnVars>>

\* subprocess.Popen raises: the exception leaves the generator
SpawnFails(j) ==
    /\ pc[j] = "spawn"
    /\ pc' = [pc EXCEPT ![j] = "raised"]
    /\ response' = <<>>
    /\ UNCHANGED <<complex_pdb, fasc, active_docking_jobs, project, nstruct,
                   process, structures_done, scores, last_progress_sent,
                   line_count, log_file, events, cancelled, exception,
                   unserialized, workload,
                   workspace, log_path, recounted,
                   overlapped, fnVars>>

\* the locals after the next line of the process is logged and processed
AfterLine(j, line) ==
    ProcessLine([structures_done |-> structures_done[j], scores |-> scores[j],
                 last_progress_sent |-> last_progress_sent[j],
                 evs |-> events[j], raised |-> ""],
                line, line_count[j] + 1, fasc[project[j]], nstruct[j])

\* lines read by all the streams so far
RECURSIVE LinesRead(_)
LinesRead(j) == IF j = 0 THEN 0 ELSE line_count[j] + LinesRead(j - 1)

CanRead(j) ==
    /\ pc[j] = "loop"
    /\ process[j].stdout_open
    /\ LinesRead(MaxJobs) < workload.lines

\* A log is a sequence of cells, one per line; a cell the file was extended
\* over without being written reads as NUL bytes.
Hole == <<"NUL">>

\* log_file.write(line) without effect
LogWriteDropped(content, pos, line) == content

\* log_file.write(line); log_file.flush(): the handle, opened at the start of
\* the file, has written pos lines and writes the next one after them
LogWrite(content, pos, line) ==
    IF pos < Len(content)
    THEN [content EXCEPT ![pos + 1] = line]
    ELSE content \o [i \in 1..(pos - Len(content)) |-> Hole] \o <<line>>

\* the greatest of the counts check_fasc_file has returned to the loop
Recount(seen, count, file) ==
    IF count % FascCheckEvery = 0 THEN Max(seen, check_fasc_file(file)) ELSE seen

\* one pass of the for loop that raises nothing
ReadLine(j, line) ==
    LET f == AfterLine(j, line) IN
    /\ CanRead(j)
    /\ f.raised = ""
    /\ line_count' = [line_count EXCEPT ![j] = @ + 1]
    /\ log_file' = [log_file EXCEPT ![j] = Append(@, line)]
    /\ log_path' = [log_path EXCEPT ![project[j]] =
                       LogWrite(@, Len(log_file[j]), line)]
    /\ recounted' = [recounted EXCEPT ![j] = Recount(@, line_count[j] + 1,
                                                      fasc[project[j]])]
    /\ structures_done' = [structures_done EXCEPT ![j] = f.structures_done]
    /\ scores' = [scores EXCEPT ![j] = f.scores]
    /\ last_progress_sent' = [last_progress_sent EXCEPT ![j] = f.last_progress_sent]
    /\ events' = [events EXCEPT ![j] = f.evs]
    /\ response' = <<>>
    /\ UNCHANGED <<complex_pdb, fasc, active_docking_jobs, pc, project, nstruct,
                   process, cancelled, exception, unserialized, workload,
                   workspace, overlapped, fnVars>>

\* one pass of the for loop that raises: except, then finally
ReadLineRaises(j, line) ==
    LET f == AfterLine(j, line) IN
    /\ CanRead(j)
    /\ f.raised # ""
    /\ line_count' = [line_count EXCEPT ![j] = @ + 1]
    /\ log_file' = [log_file EXCEPT ![j] = Append(@, line)]
    /\ log_path' = [log_path EXCEPT ![project[j]] =
                       LogWrite(@, Len(log_file[j]), line)]
    /\ recounted' = [recounted EXCEPT ![j] = Recount(@, line_count[j] + 1,
                                                      fasc[project[j]])]
    /\ structures_done' = [structures_done EXCEPT ![j] = f.structures_done]
    /\ scores' = [scores EXCEPT ![j] = f.scores]
    /\ last_progress_sent' = [last_progress_sent EXCEPT ![j] = f.last_progress_sent]
    /\ events' = [events EXCEPT ![j] = ExceptHandler(f.evs, f.raised)]
    /\ exception' = [exception EXCEPT ![j] = [raised |-> f.raised, before |-> f.evs]]
    /\ active_docking_jobs' = Unregister(active_docking_jobs, project[j])
    /\ pc' = [pc EXCEPT ![j] = "done"]
    /\ response' = <<>>
    /\ UNCHANGED <<complex_pdb, fasc, project, nstruct, process, cancelled,
                   unserialized, workload,
                   workspace, overlapped, fnVars>>

\* readline() returns '': the loop ends
StreamEnd(j) ==
    /\ pc[j] = "loop"
    /\ ~process[j].stdout_open
    /\ pc' = [pc EXCEPT ![j] = "wait"]
    /\ response' = <<>>
    /\ UNCHANGED <<complex_pdb, fasc, active_docking_jobs, project, nstruct,
                   process, structures_done, scores, last_progress_sent,
                   line_count, log_file, events, cancelled, exception,
                   unserialized, workload,
                   workspace, log_path, recounted,
                   overlapped, fnVars>>

\* WaitReturns with the wait left out
WaitSkipped(proc) == TRUE

\* process.wait() returns once the process has exited
WaitReturns(proc) == proc.state = "exited"

\* process.wait(), unregister, parse the score table, yield the last event
Finish(j) ==
    /\ pc[j] = "wait"
    /\ WaitReturns(process[j])
    /\ active_docking_jobs' = Unregister(active_docking_jobs, project[j])
    /\ events' = [events EXCEPT ![j] = Append(@, FinalEvent(fasc[project[j]]))]
    /\ pc' = [pc EXCEPT ![j] = "done"]
    /\ response' = <<>>
    /\ UNCHANGED <<complex_pdb, fasc, project, nstruct, process, structures_done,
                   scores, last_progress_sent, line_count, log_file, cancelled,
                   exception, unserialized, workload,
                   workspace, log_path, recounted,
                   overlapped, fnVars>>

\* -------------------------------------------------- the docking engine
\* the engine appends a line to the project's score table
EngineWrite(j, line) ==
    /\ process[j].state = "running"
    /\ Len(fasc[project[j]].lines) < workload.fasc_lines
    /\ fasc' = [fasc EXCEPT ![project[j]] = File(Append(@.lines, line))]
    /\ response' = <<>>
    /\ UNCHANGED <<complex_pdb, active_docking_jobs, jobVars, cancelled,
                   unserialized, workload,
                   workspace, log_path, recounted,
                   overlapped, fnVars>>

\* the engine closes its output while it keeps running
EngineCloseStdout(j) ==
    /\ process[j].state = "running"
    /\ process[j].stdout_open
    /\ process' = [process EXCEPT ![j].stdout_open = FALSE]
    /\ response' = <<>>
    /\ UNCHANGED <<complex_pdb, fasc, active_docking_jobs, pc, project, nstruct,
                   structures_done, scores, last_progress_sent, line_count,
                   log_file, events, cancelled, exception, unserialized, workload,
                   workspace, log_path, recounted,
                   overlapped, fnVars>>

\* the engine exits, by itself or on the termination signal
EngineExit(j, code) ==
    /\ process[j].state = "running"
    /\ process' = [process EXCEPT ![j].state = "exited",
                                  ![j].stdout_open = FALSE,
                                  ![j].returncode = code]
    /\ response' = <<>>
    /\ UNCHANGED <<complex_pdb, fasc, active_docking_jobs, pc, project, nstruct,
                   structures_done, scores, last_progress_sent, line_count,
                   log_file, events, cancelled, exception, unserialized, workload,
                   workspace, log_path, recounted,
                   overlapped, fnVars>>

Next ==
    \/ \E p \in workload.projects : Merge(p)
    \/ \E p \in workload.projects : SubmitRejected(p)
    \/ \E p \in workload.projects, n \in NstructSet : Submit(p, n)
    \/ \E p \in workload.projects : Cancel(p)
    \/ \E j \in JobIds : Start(j)
    \/ \E j \in JobIds : InitialProgress(j)
    \/ \E j \in JobIds : Spawn(j)
    \/ \E j \in JobIds : SpawnFails(j)
    \/ \E j \in JobIds, line \in workload.line_set : ReadLine(j, line)
    \/ \E j \in JobIds, line \in workload.line_set : ReadLineRaises(j, line)
    \/ \E j \in JobIds : StreamEnd(j)
    \/ \E j \in JobIds : Finish(j)
    \/ \E j \in JobIds, line \in workload.fasc_set : EngineWrite(j, line)
    \/ \E j \in JobIds : EngineCloseStdout(j)
    \/ \E j \in JobIds, code \in workload.codes : EngineExit(j, code)

Spec == Init /\ [][Next]_vars

SpecJobs == InitJobs /\ [][Next]_vars

\* the calls of /dock beside those of /dock-stream and /dock-cancel
NextDock ==
    \/ Next
    \/ \E p \in workload.projects : DockRejected(p)
    \/ \E p \in workload.projects, code \in workload.codes :
          \E out \in {fasc[p], DockTable} : Dock(p, code, out)

SpecDock == InitDock /\ [][NextDock]_vars

\* The server keeps iterating a generator that can take a step, and a process
\* that was sent the termination signal exits.
Fairness ==
    \A j \in JobIds :
        /\ WF_vars(StreamEnd(j))
        /\ WF_vars(Finish(j))
        /\ WF_vars(process[j].terminated /\ \E code \in workload.codes : EngineExit(j, code))

SpecJobsFair == SpecJobs /\ Fairness

\* ------------------------------------------- functions called alone
\* no service call is made: the docking state stays as constructed
InitIdle ==
    /\ InitState
    /\ workload = StreamWorkload
    /\ fasc = [p \in Projects |-> NoFile]

\* a count that differs from the last one sent, for a replica count >= 1
InitPercent ==
    /\ InitIdle
    /\ output = <<>>
    /\ input \in [structures_done : 0..MaxDone, nstruct : 1..MaxTotal]

\* if should_send_progress(structures_done): percent = ...; yield progress
YieldProgress ==
    /\ output = <<>>
    /\ output' = <<SendProgress([structures_done |-> input.structures_done,
                                 scores |-> <<>>, last_progress_sent |-> 0 - 1,
                                 evs |-> <<>>, raised |-> ""],
                                input.nstruct).evs>>
    /\ UNCHANGED <<dockVars, input>>

SpecPercent == InitPercent /\ [][YieldProgress]_vars

\* lines of a score table
TableLineSet ==
    { <<"SCORE:", "total_score", "description">>,
      <<"SCORE:", "rms", "total_score", "description">>,
      <<"SCORE:", "-3", "m_0001">>,
      <<"SCORE:", "-5", "m_0002">>,
      <<"SCORE:", "-3", "m_1">>,
      <<"SCORE:", "-5">>,
      <<"SCORE:", "bad", "x">>,
      <<"SEQUENCE:", "x">> }

\* score tables: no file, or a file of up to MaxTableLines lines
TableSet ==
    {NoFile} \cup
    {File(ls) : ls \in UNION {[1..k -> TableLineSet] : k \in 0..MaxTableLines}}

\* sorted(glob.glob(pdb_glob)): the stems of the files matched
CandidateSet ==
    { <<>>,
      <<"complex_input_full_0001">>,
      <<"complex_input_full_0001", "complex_input_full_b_1">>,
      <<"complex_input_full_0002", "complex_input_full_x">> }

InitParse ==
    /\ InitIdle
    /\ output = <<>>
    /\ input \in [fasc : TableSet, candidates : CandidateSet]

\* a call of parse_fasc_all_models
ParseAll ==
    /\ output = <<>>
    /\ output' = <<"all", parse_fasc_all_models(input.fasc, input.candidates)>>
    /\ UNCHANGED <<dockVars, input>>

\* a call of parse_fasc_and_find_best
FindBest ==
    /\ output = <<>>
    /\ output' = <<"best", parse_fasc_and_find_best(input.fasc, input.candidates)>>
    /\ UNCHANGED <<dockVars, input>>

NextParse == ParseAll \/ FindBest

SpecParse == InitParse /\ [][NextParse]_vars

\* ------------------------------------------- normalize_chains (pipeline)
\* A line of a structure file is [rec, chain, resseq, icode]: the record
\* name and the columns 22, 23-26 and 27 of the line.
PdbLine(rec, chain, resseq, icode) ==
    [rec |-> rec, chain |-> chain, resseq |-> resseq, icode |-> icode]

\* line.startswith(("ATOM", "HETATM"))
IsAtom(line) == line.rec \in {"ATOM", "HETATM"}

letters ==
    <<"A", "B", "C", "D", "E", "F", "G", "H", "I", "J", "K", "L", "M",
      "N", "O", "P", "Q", "R", "S", "T", "U", "V", "W", "X", "Y", "Z">>

\* old = line[21]; "_" if old.strip() == ""
OldChain(line) == IF line.chain = " " THEN "_" ELSE line.chain

\* while letters[next_idx] in used: next_idx += 1; the 0-based index the
\* loop stops at, Len(letters) when it runs off the end (IndexError)
NextFree(next_idx, used) ==
    LET free == {k \in next_idx..(Len(letters) - 1) : letters[k + 1] \notin used}
    IN IF free = {} THEN Len(letters)
       ELSE CHOOSE k \in free : \A m \in free : k <= m

\* the body of the loop over the lines, on
\* [ok, chain_map, used, next_idx, new_lines]
NormalizeLine(acc, line) ==
    IF ~acc.ok THEN acc
    ELSE IF ~IsAtom(line) THEN [acc EXCEPT !.new_lines = Append(@, line)]
    ELSE IF \E m \in acc.chain_map : m[1] = OldChain(line)
    THEN LET m == CHOOSE m \in acc.chain_map : m[1] = OldChain(line)
         IN [acc EXCEPT !.new_lines = Append(@, [line EXCEPT !.chain = m[2]])]
    ELSE LET k == NextFree(acc.next_idx, acc.used) IN
         IF k >= Len(letters) THEN [acc EXCEPT !.ok = FALSE]
         ELSE [acc EXCEPT
                 !.chain_map = @ \cup {<<OldChain(line), letters[k + 1]>>},
                 !.used = @ \cup {letters[k + 1]},
                 !.next_idx = k + 1,
                 !.new_lines = Append(@, [line EXCEPT !.chain = letters[k + 1]])]

RECURSIVE NormalizeLines(_, _, _)
NormalizeLines(acc, lines, i) ==
    IF i > Len(lines) THEN acc
    ELSE NormalizeLines(NormalizeLine(acc, lines[i]), lines, i + 1)

\* normalize_chains: [ok, lines, used]; lines is the file written, used the
\* set, which the call changes in place also when it fails
normalize_chains(lines, used) ==
    LET acc == NormalizeLines([ok |-> TRUE, chain_map |-> {}, used |-> used,
                               next_idx |-> Cardinality(used),
                               new_lines |-> <<>>], lines, 1)
    IN [ok |-> acc.ok,
        lines |-> IF acc.ok THEN acc.new_lines ELSE <<>>,
        used |-> acc.used]

\* lines of the files normalized
ChainLineSet ==
    { PdbLine("ATOM", "A", "   1", " "),
      PdbLine("ATOM", "B", "   1", " "),
      PdbLine("HETATM", " ", "   1", " "),
      PdbLine("ATOM", "_", "   1", " "),
      PdbLine("TER", "A", "   1", " ") }

ChainFileSet == UNION {[1..k -> ChainLineSet] : k \in 0..MaxChainLines}

\* the set a first call is given
UsedSet ==
    { {}, {"B"}, {"Z"},
      {letters[k] : k \in 1..(Len(letters) - 2)},
      {letters[k] : k \in 3..Len(letters)} }

\* the chain labels of the atom lines, each once, in the order they appear
RECURSIVE LabelsInOrder(_, _)
LabelsInOrder(lines, i) ==
    IF i = 0 THEN <<>>
    ELSE LET before == LabelsInOrder(lines, i - 1) IN
         IF IsAtom(lines[i]) /\ \A k \in 1..Len(before) : before[k] # lines[i].chain
         THEN Append(before, lines[i].chain)
         ELSE before

\* a used set threaded through the calls: output is [used, assigned, calls,
\* last], with assigned the labels of the files written so far and last the
\* call just made
InitNormalize ==
    /\ InitIdle
    /\ input \in [used : UsedSet]
    /\ output = [used |-> input.used, assigned |-> <<>>, calls |-> 0,
                 last |-> <<>>]

\* rec2, used = normalize_chains(Path(rec), used)
NormalizeCall(file) ==
    LET r == normalize_chains(file, output.used) IN
    /\ output.calls < MaxCalls
    /\ output.last # <<>> => output.last[1].result.ok
    /\ output' = [used |-> r.used,
                  assigned |-> output.assigned
                               \o LabelsInOrder(r.lines, Len(r.lines)),
                  calls |-> output.calls + 1,
                  last |-> <<[file |-> file, before |-> output.used,
                             result |-> r]>>]
    /\ UNCHANGED <<dockVars, input>>

NextNormalize == \E file \in ChainFileSet : NormalizeCall(file)

SpecNormalize == InitNormalize /\ [][NextNormalize]_vars

\* ----------------------------------------------- sanitize_pdb (pipeline)
\* str.strip() of the columns 23-26 and of the column 27
Strip ==
    [t \in {"   1", "1   ", "   2", " ", "A"} |->
        CASE t \in {"   1", "1   "} -> "1"
          [] t = "   2" -> "2"
          [] t = " " -> ""
          [] OTHER -> "A"]

\* f"{new_resseq:4d}": right-justified in four columns, wider from 10000 on
Format4d(n) ==
    IF n < 10 THEN "   " \o ToString(n)
    ELSE IF n < 100 THEN "  " \o ToString(n)
    ELSE IF n < 1000 THEN " " \o ToString(n)
    ELSE ToString(n)

\* ResidueKey without the insertion code
ResidueKeyNoIcode(line) == <<line.chain, Strip[line.resseq], "">>

\* key = (chain, resseq, icode)
ResidueKey(line) == <<line.chain, Strip[line.resseq], Strip[line.icode]>>

\* the body of the loop over the lines, on
\* [last_key, new_resseq, new_num, new_lines]; last_key is <<>> for None
SanitizeLine(acc, line) ==
    IF ~IsAtom(line) THEN [acc EXCEPT !.new_lines = Append(@, line)]
    ELSE LET new == acc.last_key # <<ResidueKey(line)>>
             num == IF new THEN Format4d(acc.new_resseq) ELSE acc.new_num
         IN [last_key |-> <<ResidueKey(line)>>,
             new_resseq |-> IF new THEN acc.new_resseq + 1 ELSE acc.new_resseq,
             new_num |-> num,
             new_lines |-> Append(acc.new_lines,
                                  [line EXCEPT !.resseq = num, !.icode = " "])]

RECURSIVE SanitizeLines(_, _, _)
SanitizeLines(acc, lines, i) ==
    IF i > Len(lines) THEN acc
    ELSE SanitizeLines(SanitizeLine(acc, lines[i]), lines, i + 1)

\* sanitize_pdb: the lines of the file written
sanitize_pdb(lines) ==
    SanitizeLines([last_key |-> <<>>, new_resseq |-> 1, new_num |-> "   1",
                   new_lines |-> <<>>], lines, 1).new_lines

\* lines of the files sanitized
ResidueLineSet ==
    { PdbLine("ATOM", "A", "   1", " "),
      PdbLine("ATOM", "A", "1   ", " "),
      PdbLine("HETATM", "A", "   1", " "),
      PdbLine("ATOM", "A", "   1", "A"),
      PdbLine("ATOM", "B", "   1", " "),
      PdbLine("ATOM", "A", "   2", " "),
      PdbLine("TER", "A", "   2", "A") }

ResidueFileSet == UNION {[1..k -> ResidueLineSet] : k \in 0..MaxResidueLines}

InitSanitize ==
    /\ InitIdle
    /\ input \in [lines : ResidueFileSet]
    /\ output = <<>>

\* rec2 = sanitize_pdb(Path(rec))
SanitizeCall ==
    /\ output = <<>>
    /\ output' = <<sanitize_pdb(input.lines)>>
    /\ UNCHANGED <<dockVars, input>>

SpecSanitize == InitSanitize /\ [][SanitizeCall]_vars

\* ------------------------------------------------ combine_in_python
\* Atoms lie on one axis with whole-number coordinates, so every norm is
\* an absolute value and the float arithmetic of the source is exact.
Abs(x) == IF x < 0 THEN 0 - x ELSE x

\* dists[i, j] = norm(rec_coords[i] - bin_coords[j])
dists(rec_coords, bin_coords, i, j) == Abs(rec_coords[i] - bin_coords[j])

\* np.unravel_index(np.argmin(dists), dists.shape): first minimum, row-major
ClosestPair(rec_coords, bin_coords) ==
    LET pairs == (DOMAIN rec_coords) \X (DOMAIN bin_coords)
        d(p) == dists(rec_coords, bin_coords, p[1], p[2])
        before(p, q) == p[1] < q[1] \/ (p[1] = q[1] /\ p[2] <= q[2])
    IN  CHOOSE p \in pairs :
            \A q \in pairs : d(p) < d(q) \/ (d(p) = d(q) /\ before(p, q))

\* np.min(norm(bin[:, None] - rec[None, :])): the closest distance
MinDistance(rec_coords, bin_coords) ==
    LET ds == { dists(rec_coords, bin_coords, i, j) :
                    i \in DOMAIN rec_coords, j \in DOMAIN bin_coords }
    IN  CHOOSE x \in ds : \A y \in ds : x <= y

\* atom.coord += final_shift, for every atom of the binder
Translate(bin_coords, shift) ==
    [j \in DOMAIN bin_coords |-> bin_coords[j] + shift]

\* combine_in_python: the binder coordinates written to the complex
combine_in_python(rec_coords, bin_coords, gap) ==
    LET min_ij == ClosestPair(rec_coords, bin_coords)
        vec0 == rec_coords[min_ij[1]] - bin_coords[min_ij[2]]
        degenerate == Abs(vec0) = 0
        vec == IF degenerate THEN 1 ELSE vec0
        norm == IF degenerate THEN 1 ELSE Abs(vec0)
        unit == IF vec < 0 THEN 0 - 1 ELSE 1
        needed == norm - gap
        shift_forward == unit * (0 - needed)
        shift_backward == unit * needed
        test1 == MinDistance(rec_coords, Translate(bin_coords, shift_forward))
        test2 == MinDistance(rec_coords, Translate(bin_coords, shift_backward))
        final_shift == IF Abs(test1 - gap) < Abs(test2 - gap)
                       THEN shift_forward ELSE shift_backward
    IN  Translate(bin_coords, final_shift)

\* atom coordinates and gaps of the structures combined
CoordSet == 0..MaxCoord

AtomsSet == UNION {[1..k -> CoordSet] : k \in 1..MaxAtoms}

GapSet == 1..MaxGap

InitCombine ==
    /\ InitIdle
    /\ input \in [rec : AtomsSet, bin : AtomsSet, gap : GapSet]
    /\ output = <<>>

\* combine_in_python(rec3, bin2, out)
CombineCall ==
    /\ output = <<>>
    /\ output' = <<combine_in_python(input.rec, input.bin, input.gap)>>
    /\ UNCHANGED <<dockVars, input>>

SpecCombine == InitCombine /\ [][CombineCall]_vars

\* ---------------------------------------------------- recount of the table
\* a row the engine has written in part: the newline is not there yet
PartialLineSet ==
    { <<"SCO">>, <<"SCORE:">>, <<"SCORE:", "-3">>, <<"SCORE:", "-3", "m_00">> }

\* the lines the engine has written in full
WrittenSet == UNION {[1..k -> FascLineSet] : k \in 0..MaxFascLines}

\* the score table as a recount finds it: absent, unreadable, or the lines
\* written in full followed by the part of the line being written
TableFound(state, written, partial) ==
    LET ls == written \o (IF partial = <<>> THEN <<>> ELSE <<partial>>)
    IN  CASE state = "absent" -> NoFile
          [] state = "unreadable" -> UnreadableFile(ls)
          [] OTHER -> File(ls)

InitRecount ==
    /\ InitIdle
    /\ input \in [state : {"absent", "unreadable", "readable"},
                  written : WrittenSet,
                  partial : PartialLineSet \cup {<<>>},
                  line_count : 1..MaxLines,
                  structures_done : 0..MaxFascLines,
                  nstruct : NstructSet \cup {1}]
    /\ output = <<>>

\* if line_count % 3 == 0: fasc_count = check_fasc_file(); ...
RecountStage ==
    /\ output = <<>>
    /\ output' = <<FascStage([structures_done |-> input.structures_done,
                              scores |-> <<>>,
                              last_progress_sent |-> input.structures_done,
                              evs |-> <<>>, raised |-> ""],
                             input.line_count,
                             TableFound(input.state, input.written,
                                        input.partial),
                             input.nstruct)>>
    /\ UNCHANGED <<dockVars, input>>

SpecRecount == InitRecount /\ [][RecountStage]_vars

\* ------------------------------------------- the counters of table rows
\* count_completed_structures: the rows counted by progress_checker
count_completed_structures(file) ==
    IF ~file.exists THEN 0
    ELSE IF ~file.readable THEN 0
    ELSE Cardinality({i \in 1..Len(file.lines) :
            /\ StartsWithSCORE(file.lines[i])
            /\ ~Contains(file.lines[i], "total_score")
            /\ ~Contains(file.lines[i], "description")
            /\ Len(file.lines[i]) >= 2
            /\ IsFloat(file.lines[i][2])})

\* the score tables counted: those parsed, and one that cannot be read
InitCount ==
    /\ InitIdle
    /\ input \in [fasc : TableSet \cup {UnreadableFile(<<>>)}]
    /\ output = <<>>

\* fasc_count = check_fasc_file()
CheckFascCall ==
    /\ output = <<>>
    /\ output' = <<"check_fasc_file", check_fasc_file(input.fasc)>>
    /\ UNCHANGED <<dockVars, input>>

\* a call of count_completed_structures
CountCompletedCall ==
    /\ output = <<>>
    /\ output' = <<"count_completed_structures",
                   count_completed_structures(input.fasc)>>
    /\ UNCHANGED <<dockVars, input>>

NextCount == CheckFascCall \/ CountCompletedCall

SpecCount == InitCount /\ [][NextCount]_vars

\* ================================================================ claims
IsProgress(e) == e.type = "progress"

IsScore(e) == e.type = "score"

IsTerminal(e) == e.type \in {"complete", "error"}

ProgressOf(j) == SelectSeq(events[j], IsProgress)

HasEvent(j, type) == \E i \in 1..Len(events[j]) : events[j][i].type = type

IsPrefix(a, b) == Len(a) <= Len(b) /\ SubSeq(b, 1, Len(a)) = a

\* C1: the current values of the successive progress events of a stream,
\* the initial one included, never decrease.
C1_ProgressNonDecreasing ==
    \A j \in JobIds : \A i \in 1..Len(ProgressOf(j)) : \A k \in 1..Len(ProgressOf(j)) :
        i < k => ProgressOf(j)[i].current <= ProgressOf(j)[k].current

\* C2: no two consecutive progress events of a stream, the initial one
\* included, carry the same current value.
C2_NoRepeatedProgress ==
    \A j \in JobIds : \A i \in 1..(Len(ProgressOf(j)) - 1) :
        ProgressOf(j)[i].current # ProgressOf(j)[i + 1].current

\* a line with the SCORE: prefix that is no header or description line
ScorePrefixLine(line) ==
    /\ Len(line) >= 1 /\ line[1] = "SCORE:"
    /\ \A i \in 1..Len(line) : line[i] \notin {"total_score", "description"}

\* such a line with a second token, which is a number
NumericScoreLine(line) ==
    /\ ScorePrefixLine(line)
    /\ Len(line) >= 2
    /\ line[2] \in {"0", "1", "2", "3", "-3", "-5"}

ScoreEventsOf(j) == SelectSeq(events[j], IsScore)

\* the lines of the log whose pass of the loop ran to its end
LinesProcessed(j) ==
    IF exception[j].raised = "" THEN log_file[j]
    ELSE SubSeq(log_file[j], 1, Len(log_file[j]) - 1)

\* C3 as stated: after every line, the score events are as many as the
\* SCORE:-prefixed non-header lines read so far.
C3_ScoreEventPerScoreLine ==
    \A j \in JobIds :
        Len(ScoreEventsOf(j)) = Len(SelectSeq(log_file[j], ScorePrefixLine))

\* C3 amended: after every line, the score events are, in arrival order, the
\* SCORE:-prefixed non-header lines with a numeric second token whose pass of
\* the loop raised nothing, each with its own score and descriptor, whether or
\* not a progress event was sent for the line.
C3_ScoreEventPerNumericScoreLine ==
    \A j \in JobIds :
        LET ls == SelectSeq(LinesProcessed(j), NumericScoreLine)
            es == ScoreEventsOf(j)
        IN /\ Len(es) = Len(ls)
           /\ \A i \in 1..Len(ls) :
                /\ es[i].score = <<FloatVal[ls[i][2]]>>
                /\ es[i].desc = IF Len(ls[i]) > 2 THEN ls[i][Len(ls[i])]
                                ELSE "unknown"

\* a line matched as "1 of", a SCORE: line with a non-numeric score and a
\* numeric SCORE: line: one score event, no progress event for its line
C3_Witness ==
    \E j \in JobIds :
        /\ log_file[j] = << <<"JobDistributor", "1", "of", "2">>,
                            <<"SCORE:", "bad", "m_0002">>,
                            <<"SCORE:", "-3", "m_0001">> >>
        /\ Len(ScoreEventsOf(j)) = 1
        /\ Len(ProgressOf(j)) = 2


\* C5: the stream of a job for which cancel returned "cancelled" never
\* carries a complete event.
C5_CancelledNeverCompletes ==
    \A j \in cancelled : ~HasEvent(j, "complete")

\* C6: a stream that ended after its process exited carries a complete event
\* only if the exit code is zero and the score table exists and parses, and an
\* error event and no complete event otherwise.
C6_CompleteOnlyOnZeroExit ==
    \A j \in JobIds :
        (pc[j] = "done" /\ exception[j].raised = "") =>
            LET good == /\ process[j].returncode = 0
                        /\ fasc[project[j]].exists
                        /\ parse_fasc_and_find_best(fasc[project[j]], <<>>).ok
                        /\ parse_fasc_all_models(fasc[project[j]], <<>>).ok
            IN /\ HasEvent(j, "complete") <=> good
               /\ HasEvent(j, "error") <=> ~good

\* C7: a stream that has ended starts with its one start event and ends with
\* its one terminal event, complete or error.
C7_StreamShape ==
    \A j \in JobIds :
        pc[j] \in {"done", "raised"} =>
            LET es == events[j] IN
            /\ Len(es) >= 2
            /\ es[1].type = "start"
            /\ IsTerminal(es[Len(es)])
            /\ \A i \in 2..Len(es) : es[i].type # "start"
            /\ \A i \in 1..(Len(es) - 1) : ~IsTerminal(es[i])

C9_ExceptionBecomesLastError ==
    [][\A j \in JobIds :
        /\ (exception[j].raised = "" /\ exception'[j].raised # "") =>
              /\ IsPrefix(events[j], events'[j])
              /\ Len(events'[j]) = Len(exception'[j].before) + 1
              /\ IsPrefix(events[j], exception'[j].before)
              /\ IsPrefix(exception'[j].before, events'[j])
              /\ events'[j][Len(events'[j])] = ErrorEvent(exception'[j].raised)
              /\ \A i \in 1..Len(exception'[j].before) :
                    ~IsTerminal(exception'[j].before[i])
              /\ pc'[j] = "done"
        /\ pc[j] = "done" => (events'[j] = events[j] /\ pc'[j] = "done")]_vars

\* a pass of the loop has raised on the second line of a stream
C9_Witness ==
    \E j \in JobIds :
        /\ exception[j].raised = "division by zero"
        /\ line_count[j] = 2
        /\ Len(events[j]) = 3

RunningOf(p) == {j \in JobIds : project[j] = p /\ process[j].state = "running"}

IsCancelReply(r, p) == Len(r) = 3 /\ r[1] = "cancel" /\ r[2] = p

\* C10: a cancel call for a project with no registry entry replies not_found
\* and changes neither the registry nor any process or stream; right after a
\* cancel call the project has no registry entry, so that a cancel call that
\* directly follows one for the same project replies not_found and leaves the
\* registry unchanged.
C10_CancelAbsentIsNotFound ==
    /\ [](\A p \in Projects :
            IsCancelReply(response, p) => active_docking_jobs[p] = 0)
    /\ [][\A p \in Projects :
            (IsCancelReply(response', p) /\ active_docking_jobs[p] = 0) =>
                /\ response'[3] = "not_found"
                /\ active_docking_jobs' = active_docking_jobs
                /\ process' = process
                /\ cancelled' = cancelled
                /\ pc' = pc
                /\ events' = events]_vars

\* the second of two cancel calls for a project replied not_found: its job
\* was signalled by the first, and the other project's entry is still there
C10_Witness ==
    /\ IsCancelReply(response, "p1") /\ response[3] = "not_found"
    /\ \E j \in cancelled : project[j] = "p1" /\ process[j].terminated
    /\ active_docking_jobs["p1"] = 0
    /\ active_docking_jobs["p2"] # 0

LastEvent(j) == events[j][Len(events[j])]

\* a cancel call for a project with a registered process: it replies
\* cancelled, signals the registered process if it runs and no other, removes
\* the entry at once, leaves the other entries and every stream as they are
CancelRegisteredStep ==
    \A p \in Projects :
        (IsCancelReply(response', p) /\ active_docking_jobs[p] # 0) =>
            LET j == active_docking_jobs[p] IN
            /\ response'[3] = "cancelled"
            /\ active_docking_jobs'[p] = 0
            /\ \A q \in Projects \ {p} :
                  active_docking_jobs'[q] = active_docking_jobs[q]
            /\ cancelled' = cancelled \cup {j}
            /\ process[j].state = "running" => process'[j].terminated
            /\ process'[j].state = process[j].state
            /\ \A k \in JobIds \ {j} : process'[k] = process[k]
            /\ pc' = pc
            /\ events' = events

IsSubmitReply(r, p) ==
    Len(r) = 3 /\ r[1] \in {"dock", "dock-stream"} /\ r[2] = p

\* C12: a submission, by /dock or /dock-stream, for a project without the
\* merged complex fails with the not-found error of its path and changes
\* nothing: no process, no registry entry, no template copied, no event.
C12_SubmitWithoutComplexFails ==
    [][\A p \in Projects :
        (IsSubmitReply(response', p) /\ ~complex_pdb[p]) =>
            /\ response'[1] = "dock" => response'[3] = "FileNotFoundError"
            /\ response'[1] = "dock-stream" => response'[3] = "400"
            /\ process' = process
            /\ pc' = pc
            /\ active_docking_jobs' = active_docking_jobs
            /\ workspace' = workspace
            /\ events' = events
            /\ fasc' = fasc]_vars

\* /dock was refused for a project without the merged complex while the
\* stream of the other project runs; nothing of the refused project exists
C12_Witness ==
    /\ response = <<"dock", "p2", "FileNotFoundError">>
    /\ ~complex_pdb["p2"]
    /\ workspace["p2"] = NoWorkspace
    /\ active_docking_jobs["p2"] = 0
    /\ active_docking_jobs["p1"] # 0
    /\ workspace["p1"].xml

\* C13: when the spawn of the engine fails, the job has no process, the
\* registry holds no entry for it, and no start or progress event has been
\* yielded for the submission.
C13_SpawnFailureEmitsNothing ==
    \A j \in JobIds :
        pc[j] = "raised" =>
            /\ process[j].state = "none"
            /\ active_docking_jobs[project[j]] # j
            /\ ~HasEvent(j, "start")
            /\ ~HasEvent(j, "progress")

\* round(100 * current / total), halves up
RoundedPercent(current, total) == (200 * current + total) \div (2 * total)

\* C14: for a replica count total >= 1 and a count current >= 0, the percent
\* of a progress event is min(100, round(100 * current / total)).
C14_PercentIsRounded ==
    output # <<>> =>
        \A i \in 1..Len(output[1]) :
            output[1][i].percent =
                Min(100, RoundedPercent(output[1][i].current, output[1][i].total))

\* the score table read by the call made
Table == input.fasc.lines

\* the call made is one of parse_fasc_all_models on an existing file
ParsedAll == output # <<>> /\ output[1] = "all" /\ input.fasc.exists

\* a header row: a SCORE: line that holds total_score
HeaderRow(line) ==
    /\ Len(line) >= 1 /\ line[1] = "SCORE:"
    /\ \E i \in 1..Len(line) : line[i] = "total_score"

\* a SCORE: line that is no header row
PrefixRow(line) ==
    /\ Len(line) >= 1 /\ line[1] = "SCORE:"
    /\ \A i \in 1..Len(line) : line[i] # "total_score"

\* such a line with a value and a descriptor
FullRow(line) == PrefixRow(line) /\ Len(line) >= 3

\* the lines after the first header row, <<>> without a header row
AfterHeader(lines) ==
    IF \A i \in 1..Len(lines) : ~HeaderRow(lines[i]) THEN <<>>
    ELSE LET h == CHOOSE i \in 1..Len(lines) :
                    HeaderRow(lines[i]) /\ \A k \in 1..(i - 1) : ~HeaderRow(lines[k])
         IN SubSeq(lines, h + 1, Len(lines))

HasHeader(lines) == \E i \in 1..Len(lines) : HeaderRow(lines[i])

\* C15 as stated: a table with a header row and N >= 1 SCORE: rows that are
\* no header after it yields exactly N records.
C15_RecordPerPrefixRow ==
    (ParsedAll /\ SelectSeq(AfterHeader(Table), PrefixRow) # <<>>) =>
        /\ output[2].ok
        /\ Len(output[2].models) = Len(SelectSeq(AfterHeader(Table), PrefixRow))

\* C15 amended: a table with a header row and N >= 1 SCORE: rows after it
\* that are no header and have at least three tokens yields exactly N
\* records, in file order, each with a score field; shorter rows are skipped.
C15_RecordPerFullRow ==
    (ParsedAll /\ SelectSeq(AfterHeader(Table), FullRow) # <<>>) =>
        LET rows == SelectSeq(AfterHeader(Table), FullRow) IN
        /\ output[2].ok
        /\ Len(output[2].models) = Len(rows)
        /\ \A i \in 1..Len(rows) :
              /\ output[2].models[i].desc = rows[i][Len(rows[i])]
              /\ "score" \in DOMAIN output[2].models[i]

\* a table whose header is followed by a row of two tokens and two rows of
\* three: two records, in file order
C15_Witness ==
    /\ ParsedAll
    /\ Table = << <<"SCORE:", "total_score", "description">>,
                  <<"SCORE:", "-5">>,
                  <<"SCORE:", "-3", "m_0001">>,
                  <<"SCORE:", "-5", "m_0002">> >>
    /\ output[2].ok
    /\ Len(output[2].models) = 2
    /\ output[2].models[1].desc = "m_0001"
    /\ output[2].models[2].desc = "m_0002"

\* the call made is one of parse_fasc_and_find_best on a table for which
\* parse_fasc_all_models returns records
FoundBest ==
    /\ output # <<>> /\ output[1] = "best"
    /\ parse_fasc_all_models(input.fasc, input.candidates).ok

AllRecords == parse_fasc_all_models(input.fasc, input.candidates).models

\* the i-th record has the least score and is the first to have it
FirstMinimum(ms, i) ==
    /\ \A k \in 1..Len(ms) : ms[k].score # <<>>
    /\ \A k \in 1..Len(ms) : ms[i].score[1] <= ms[k].score[1]
    /\ \A k \in 1..(i - 1) : ms[k].score[1] > ms[i].score[1]

\* C16: parse_fasc_and_find_best returns the record of least score among
\* those of parse_fasc_all_models, the first of them in file order when
\* several share it, and the sole record of a table of one row.
C16_BestIsFirstMinimum ==
    FoundBest =>
        /\ output[2].ok
        /\ Len(AllRecords) = 1 => output[2].best[1] = AllRecords[1]
        /\ Len(AllRecords) > 1 =>
              \E i \in 1..Len(AllRecords) :
                  /\ FirstMinimum(AllRecords, i)
                  /\ output[2].best[1] = AllRecords[i]

\* C17: on a table without a header row, and on one whose header row is
\* followed by no row that is kept, parse_fasc_all_models fails with its
\* parse error and returns no record, and parse_fasc_and_find_best fails
\* with the same error.
C17_NoHeaderOrNoRowsFails ==
    (output # <<>> /\ input.fasc.exists) =>
        /\ ~HasHeader(Table) =>
              /\ ~output[2].ok
              /\ output[2].err = "no SCORE header"
        /\ (HasHeader(Table) /\ SelectSeq(AfterHeader(Table), FullRow) = <<>>) =>
              /\ ~output[2].ok
              /\ output[2].err = "no SCORE lines"
        /\ (~output[2].ok /\ output[1] = "all") => output[2].models = <<>>
        /\ (~output[2].ok /\ output[1] = "best") => output[2].best = <<>>

\* parse_fasc_and_find_best has failed on a table whose header row is
\* followed by a row of two tokens only
C17_Witness ==
    /\ output # <<>> /\ output[1] = "best"
    /\ Table = << <<"SCORE:", "-3", "m_0001">>,
                  <<"SCORE:", "total_score", "description">>,
                  <<"SCORE:", "-5">> >>
    /\ ~output[2].ok
    /\ output[2].err = "no SCORE lines"

\* the number after the last underscore of a descriptor that ends in
\* _<digits>, <<>> for a descriptor that does not
TrailingSuffix(desc) ==
    CASE desc \in {"m_0001", "m_1"} -> <<1>>
      [] desc = "m_0002" -> <<2>>
      [] OTHER -> <<>>

\* C18: in every record of parse_fasc_all_models the index is the number of
\* the descriptor's trailing _<digits>, null without one; a record of null
\* index has a null path, and a record of non-null index has a path exactly
\* when a file matched by the glob has that index.
C18_IndexFromSuffixPathFromGlob ==
    (ParsedAll /\ output[2].ok) =>
        \A i \in 1..Len(output[2].models) :
            LET m == output[2].models[i] IN
            /\ m.index = TrailingSuffix(m.desc)
            /\ m.index = <<>> => m.pdb_path = <<>>
            /\ m.index # <<>> =>
                  (m.pdb_path # <<>> <=>
                     \E k \in 1..Len(input.candidates) :
                         extract_index(input.candidates[k]) = m.index)

\* records of index 1 with a file, of index 2 without one and of null index
C18_Witness ==
    /\ ParsedAll /\ output[2].ok
    /\ input.candidates = <<"complex_input_full_0001", "complex_input_full_b_1">>
    /\ Len(output[2].models) = 3
    /\ output[2].models[1].index = <<1>>
    /\ output[2].models[1].pdb_path = <<"complex_input_full_b_1">>
    /\ output[2].models[2].index = <<2>>
    /\ output[2].models[2].pdb_path = <<>>
    /\ output[2].models[3].index = <<>>
    /\ output[2].models[3].pdb_path = <<>>

\* the labels of the atom lines of a file
LabelsOf(lines) == {lines[i].chain : i \in {k \in 1..Len(lines) : IsAtom(lines[k])}}

\* C19: over the calls of normalize_chains that thread one used set, no
\* label is assigned twice, no label assigned was in the set before, within a
\* file distinct source chain labels get distinct labels and equal ones the
\* same label, and the set returned is the set given plus the labels assigned.
C19_LabelsUniqueAcrossCalls ==
    /\ \A i, k \in 1..Len(output.assigned) :
          i # k => output.assigned[i] # output.assigned[k]
    /\ (output.last # <<>> /\ output.last[1].result.ok) =>
          LET c == output.last[1]
              at == {i \in 1..Len(c.file) : IsAtom(c.file[i])}
          IN /\ LabelsOf(c.result.lines) \cap c.before = {}
             /\ \A i, k \in at :
                   (c.file[i].chain = c.file[k].chain) <=>
                       (c.result.lines[i].chain = c.result.lines[k].chain)
             /\ c.result.used = c.before \cup LabelsOf(c.result.lines)

\* the residue number and the insertion code a line carries
ResidueNumber(line) ==
    CASE line.resseq \in {"   1", "1   "} -> 1
      [] line.resseq = "   2" -> 2
      [] line.resseq = "   3" -> 3
      [] line.resseq = "   4" -> 4
      [] OTHER -> 5

ResidueTriple(line) == <<line.chain, ResidueNumber(line), line.icode>>

\* the atom lines among the first i lines
AtomsUpTo(lines, i) == {k \in 1..i : IsAtom(lines[k])}

\* the atom line i starts a run: it is the first atom line, or the atom line
\* before it carries another triple
StartsRun(lines, i) ==
    /\ IsAtom(lines[i])
    /\ \/ AtomsUpTo(lines, i - 1) = {}
       \/ LET prev == CHOOSE k \in AtomsUpTo(lines, i - 1) :
                          \A m \in AtomsUpTo(lines, i - 1) : m <= k
          IN ResidueTriple(lines[prev]) # ResidueTriple(lines[i])

\* the number of the run the atom line i lies in
RunOf(lines, i) == Cardinality({k \in 1..i : StartsRun(lines, k)})

\* C20: sanitize_pdb numbers the maximal runs of atom lines of equal (chain,
\* residue number, insertion code) 1..K in file order: every atom line gets
\* the number of its run, without a restart at a chain change, every
\* insertion code is blanked, and the other lines are unchanged.
C20_RunsNumberedInOrder ==
    output # <<>> =>
        /\ Len(output[1]) = Len(input.lines)
        /\ \A i \in 1..Len(input.lines) :
              IF IsAtom(input.lines[i])
              THEN /\ output[1][i].resseq \in {"   1", "   2", "   3", "   4", "   5"}
                   /\ ResidueNumber(output[1][i]) = RunOf(input.lines, i)
                   /\ output[1][i].icode = " "
                   /\ output[1][i].chain = input.lines[i].chain
                   /\ output[1][i].rec = input.lines[i].rec
              ELSE output[1][i] = input.lines[i]

\* two lines of one residue, the same residue with an insertion code, then a
\* residue of the same number in another chain: the numbers 1, 1, 2, 3
C20_Witness ==
    /\ output # <<>>
    /\ input.lines = << PdbLine("ATOM", "A", "   1", " "),
                        PdbLine("ATOM", "A", "1   ", " "),
                        PdbLine("ATOM", "A", "   1", "A"),
                        PdbLine("ATOM", "B", "   1", " ") >>
    /\ output[1] = << PdbLine("ATOM", "A", "   1", " "),
                      PdbLine("ATOM", "A", "   1", " "),
                      PdbLine("ATOM", "A", "   2", " "),
                      PdbLine("ATOM", "B", "   3", " ") >>

\* C21: after combine_in_python the smallest distance between a receptor
\* atom and a translated binder atom is the gap (whole-number coordinates
\* and gaps, so a tolerance below one unit means equality).
C21_MinDistanceIsGap ==
    output # <<>> => MinDistance(input.rec, output[1]) = input.gap

\* the log of job j's project holds exactly the lines job j has consumed
LogIsConsumed(j) ==
    /\ log_path[project[j]] = log_file[j]
    /\ Len(log_file[j]) = line_count[j]

\* job j consumes a line: the line is in the log when the step is over,
\* whether its processing raised or not
LogStep(j) ==
    line_count'[j] = line_count[j] + 1
        => /\ log_path'[project[j]] = log_file'[j]
           /\ Len(log_file'[j]) = line_count'[j]

Greatest(S) == CHOOSE x \in S : \A y \in S : y <= x

\* the greatest number matched in the JobDistributor lines among ls, 0 if none
JobDistributorSignal(ls) ==
    Greatest({0} \cup { JobDistributorMatch(ls[i]) :
                          i \in { k \in 1..Len(ls) :
                                    /\ Contains(ls[k], "JobDistributor")
                                    /\ JobDistributorMatch(ls[k]) >= 0 } })

\* the number of score-data lines among ls
ScoreLineSignal(ls) == Len(SelectSeq(ls, NumericScoreLine))

\* C23: after each processed line, structures_done is the greatest of the
\* three signals observed so far: the recounts of the score table, the
\* numbers matched in JobDistributor lines, and the number of score-data
\* lines streamed.
C23_CountIsMaxOfSignals ==
    \A j \in JobIds :
        (pc[j] \in {"loop", "wait", "done"} /\ exception[j].raised = "")
            => structures_done[j] =
                   Greatest({recounted[j], JobDistributorSignal(log_file[j]),
                             ScoreLineSignal(log_file[j])})

\* the rows written in full that a recount may count: none when the table is
\* absent or unreadable
RowsInFull ==
    IF input.state # "readable" THEN 0
    ELSE Len(SelectSeq(input.written, ScorePrefixLine))

\* the recount stage left the frame as it was
RecountSkipped ==
    /\ output[1].structures_done = input.structures_done
    /\ output[1].evs = <<>>
    /\ output[1].raised = ""

\* C24: the table is recounted on every third line; a recount of a table
\* that is absent, unreadable or ends in a line written in part counts only
\* the rows written in full: it never lowers the count, never raises and
\* never yields an error event.
C24_RecountToleratesWriter ==
    output # <<>> =>
        /\ output[1].structures_done >= input.structures_done
        /\ output[1].raised = ""
        /\ \A i \in 1..Len(output[1].evs) : output[1].evs[i].type # "error"
        /\ input.line_count % 3 # 0 => RecountSkipped
        /\ input.line_count % 3 = 0 =>
               output[1].structures_done = Max(input.structures_done, RowsInFull)

\* the columns of the header row that are named total_score
TotalScoreColumns ==
    LET names == ColumnNames(Table[HeaderIndex(Table)])
    IN  {i \in 1..Len(names) : names[i] = "total_score"}

\* the score of record m is a number: the value of its total-score column
\* when the record has a number there, 0 otherwise
ScoreIsNumber(m) ==
    /\ m.score # <<>>
    /\ \/ \E i \in TotalScoreColumns : m.vals[i] # <<>> /\ m.score = m.vals[i]
       \/ /\ \A i \in TotalScoreColumns : m.vals[i] = <<>>
          /\ m.score = <<0>>

\* C25: in every record of parse_fasc_all_models the score is a number,
\* the total-score value of the row when that is present and numeric and 0
\* otherwise; parse_fasc_and_find_best compares the scores of every table
\* that parses without raising.
C25_ScoreIsNumber ==
    /\ (ParsedAll /\ output[2].ok) =>
           \A i \in 1..Len(output[2].models) : ScoreIsNumber(output[2].models[i])
    /\ FoundBest => output[2].ok

\* the distinct source chains of the atom lines of a file, a blank chain
\* column being the chain "_"
SourceChains(lines) ==
    {OldChain(lines[i]) : i \in {k \in 1..Len(lines) : IsAtom(lines[k])}}

\* the letters of A..Z that are not in used
FreeLetters(used) == {letters[k] : k \in 1..Len(letters)} \ used

\* C26: a call of normalize_chains succeeds exactly when the file has at
\* most as many distinct source chains as there are letters of A..Z not in
\* the used set, and the labels it assigns are letters not in that set.
C26_FailsExactlyWhenExhausted ==
    output.last # <<>> =>
        LET c == output.last[1] IN
        /\ c.result.ok <=>
               Cardinality(SourceChains(c.file)) <= Cardinality(FreeLetters(c.before))
        /\ c.result.ok => LabelsOf(c.result.lines) \subseteq FreeLetters(c.before)

\* C27: the options file written for a job of a project, by dock-stream or
\* by run_docking, has every -s line pointing at the project's complex,
\* every -out:file:scorefile line pointing at the project's docking.fasc,
\* the replica count appended as an override, and every other line of the
\* template unchanged and in its place.
C27_OptionsRewritten ==
    \A p \in Projects :
        workspace[p].xml =>
            LET o == workspace[p].options
                t == OptionsTemplate
            IN  /\ Len(o) = Len(t) + 1
                /\ o[Len(o)][1] = "-nstruct"
                /\ \A i \in 1..Len(t) :
                      /\ IsStructureInput(t[i]) => o[i] = <<"-s", ComplexPath(p)>>
                      /\ IsScoreOutput(t[i])
                            => o[i] = <<"-out:file:scorefile", FascPath(p)>>
                      /\ (~IsStructureInput(t[i]) /\ ~IsScoreOutput(t[i]))
                            => o[i] = t[i]

\* the stream of job j finishes after process.wait()
StreamFinishes(j) == pc[j] = "wait" /\ pc'[j] = "done"

\* C28: when every dock-stream of a project is submitted after each earlier
\* stream of the project has ended or was cancelled, a docking process that
\* is running and was not sent the termination signal is the one registered
\* under its project, and a stream that finishes removes no registry entry
\* but that of its own process.
C28_RunningIsRegistered ==
    /\ [](\A j \in JobIds :
            (/\ process[j].state = "running"
             /\ ~process[j].terminated
             /\ project[j] \notin overlapped)
                => active_docking_jobs[project[j]] = j)
    /\ [][\A j \in JobIds :
            (StreamFinishes(j) /\ project[j] \notin overlapped)
                => \A p \in Projects :
                      active_docking_jobs'[p] # active_docking_jobs[p]
                          => active_docking_jobs[p] = j]_vars

\* the lines of the project's score table that the new run has written: all
\* but those an earlier run had left
NewTableLines(p) ==
    IF fasc[p].exists /\ IsPrefix(StaleFasc.lines, fasc[p].lines)
    THEN SubSeq(fasc[p].lines, Len(StaleFasc.lines) + 1, Len(fasc[p].lines))
    ELSE fasc[p].lines

\* C29: a score table left by an earlier run adds nothing to a new job: the
\* recounts of the table never exceed the number of rows the new run has
\* written, and the record of the complete event is one of those rows.
C29_StaleTableIgnored ==
    \A j \in JobIds :
        LET new == SelectSeq(NewTableLines(project[j]), ScorePrefixLine) IN
        /\ recounted[j] <= Len(new)
        /\ \A i \in 1..Len(events[j]) :
              events[j][i].type = "complete"
                  => \E k \in 1..Len(new) :
                        events[j][i].desc = new[k][Len(new[k])]

\* C30: every progress event of a job with a replica count of at least 1
\* carries a current value between 0 and that count.
C30_ProgressWithinTotal ==
    \A j \in JobIds : \A i \in 1..Len(events[j]) :
        (events[j][i].type = "progress" /\ events[j][i].total >= 1)
            => /\ 0 <= events[j][i].current
               /\ events[j][i].current <= events[j][i].total

\* the records parse_fasc_all_models returns for the table counted
RecordsOfCounted == parse_fasc_all_models(input.fasc, NoCandidates)

\* C31: on every score table, absent ones included, check_fasc_file and
\* count_completed_structures return the same count, which is the number of
\* records of parse_fasc_all_models whenever the table parses.
C31_CountersAgree ==
    output # <<>> =>
        /\ output[2] = check_fasc_file(input.fasc)
        /\ output[2] = count_completed_structures(input.fasc)
        /\ RecordsOfCounted.ok => output[2] = Len(RecordsOfCounted.models)

====
